---- MODULE Spec2Model ----
(***************************************************************************)
(* Model of the Sloth lexical analyzer (src/lexer.c, src/lexer.h).         *)
(*                                                                         *)
(* Characters are their integer codes (ASCII).  A source file is a finite  *)
(* sequence of codes.  The Lexer struct is the record `lexer`; its FILE *  *)
(* is modelled by the read offset into `source`.  Every call of get_next   *)
(* appends the Token it returns to `returned`.                             *)
(***************************************************************************)
EXTENDS Integers, Sequences, FiniteSets, TLC

VARIABLES
    source,         \* contents of the file named by init's argument
    opened,         \* whether fopen can open that file for reading
    char_signed,    \* whether plain `char` is signed on this build
    lexer,          \* the Lexer struct (plus counts of the calls it made)
    returned,       \* the Tokens get_next has returned so far, in order
    state,          \* "live" after init, "destroyed" after destroy_lexer,
                    \* "aborted" when an assert of init has failed
    fclose_calls,   \* number of fclose calls on lexer->input
    call,           \* a direct call of a classification predicate, if any
    result          \* what that call returned

vars == <<source, opened, char_signed, lexer, returned, state, fclose_calls,
          call, result>>

----------------------------------------------------------------------------
(* Bounds of the model *)

MaxLen == 3         \* longest freely enumerated source file
MaxCalls == 4       \* most get_next calls made on one lexer

\* lexer.c: the size of the lexeme buffer of get_next
BUFFER == 256

\* Codes of the characters the enumerated files are built from:
\* NUL, ACK(6), newline, form feed, space, '(', '+', '4', '_', 'a', 'f', 'i'
Alphabet == {0, 6, 10, 12, 32, 40, 43, 52, 95, 97, 102, 105}

\* Files longer than MaxLen that the specification names, and the keywords
SampleSources ==
    { <<97, 43, 98>>,                               \* a+b
      <<120, 10, 121>>,                             \* x \n y
      <<52, 50>>,                                   \* 42
      <<52, 50, 32, 55>>,                           \* 42 7
      <<119, 104, 105, 108, 101, 40>>,              \* while(
      <<102, 111, 111, 95, 98, 97, 114, 50, 32>>,   \* foo_bar2 followed by space
      <<101, 108, 115, 101>>,                       \* else
      <<114, 101, 116, 117, 114, 110>>,             \* return
      <<105, 110, 116>>,                            \* int
      <<102, 108, 111, 97, 116>>,                   \* float
      <<32, 9, 13, 10, 32>>,                        \* space tab CR LF space
      <<32, 10, 105, 102, 32, 97>>,                 \* space LF if space a
      [i \in 1..(BUFFER + 1) |-> 97],               \* BUFFER + 1 times a
      [i \in 1..(BUFFER + 1) |-> 52] \o <<43>> }    \* BUFFER + 1 times 4, then +

RECURSIVE SeqsUpTo(_, _)
SeqsUpTo(S, n) ==
    IF n = 0 THEN { <<>> }
    ELSE LET shorter == SeqsUpTo(S, n - 1)
         IN  shorter \cup { Append(s, c) : s \in shorter, c \in S }

Sources == SeqsUpTo(Alphabet, MaxLen) \cup SampleSources

----------------------------------------------------------------------------
(* lexer.h: TokenType *)

IDENTIFIER == 0
NUMBER == 1
STRING_ == 2     \* STRING is a TLA+ built-in
KEYWORD == 3
OPERATOR == 4
SEPARATOR == 5
END == 6
INVALID == 7

\* <stdio.h>, <stddef.h>
EOF == -1
NULL == 0

\* Conversion of an int to plain char (the assignments to current_char)
ToChar(i) ==
    IF char_signed THEN ((i + 128) % 256) - 128 ELSE i % 256

\* <ctype.h> in the "C" locale; all are false for EOF and for codes above 127
isspace(c) == c \in {32, 9, 10, 11, 12, 13}
isalpha(c) == c \in (65..90) \cup (97..122)
isdigit(c) == c \in 48..57
isalnum(c) == isalpha(c) \/ isdigit(c)

\* The bytes of a C string: everything before the first NUL of an array
RECURSIVE CString(_)
CString(bytes) ==
    IF bytes = <<>> \/ Head(bytes) = 0 THEN <<>>
    ELSE <<Head(bytes)>> \o CString(Tail(bytes))

\* strchr(s, c): 1-based index of the first c in s including the terminating
\* NUL, or NULL when there is none
strchr(s, c) ==
    LET z == s \o <<0>>
        hits == { i \in 1..Len(z) : z[i] = ToChar(c) }
    IN  IF hits = {} THEN NULL
        ELSE CHOOSE i \in hits : \A j \in hits : i <= j

\* strcmp(a, b) for C strings: 0 exactly when they are equal
strcmp(a, b) ==
    IF a = b THEN 0
    ELSE LET n == IF Len(a) < Len(b) THEN Len(a) ELSE Len(b)
             diff == { i \in 1..n : a[i] # b[i] }
         IN  IF diff = {} THEN (IF Len(a) < Len(b) THEN -1 ELSE 1)
             ELSE LET i == CHOOSE k \in diff : \A j \in diff : k <= j
                  IN  IF a[i] < b[i] THEN -1 ELSE 1

\* fgetc on the stream at read offset pos: the next byte, or EOF
fgetc(pos) ==
    IF pos < Len(source) THEN source[pos + 1] ELSE EOF

\* The stream's read offset after one fgetc
fgetc_pos(pos) ==
    IF pos < Len(source) THEN pos + 1 ELSE pos

----------------------------------------------------------------------------
(* Classification predicates *)

is_whitespace(c) == c = 32 \/ c = 9 \/ c = 10 \/ c = 13

is_digit(c) == c >= 48 /\ c <= 57

is_letter(c) == (c >= 97 /\ c <= 122) \/ (c >= 65 /\ c <= 90)

\* "+-*/=<>!&|"
OperatorChars == <<43, 45, 42, 47, 61, 60, 62, 33, 38, 124>>

is_operator(c) == strchr(OperatorChars, c) # NULL

\* { "if", "else", "while", "return", "int", "float", NULL }
keywords ==
    << <<105, 102>>,
       <<101, 108, 115, 101>>,
       <<119, 104, 105, 108, 101>>,
       <<114, 101, 116, 117, 114, 110>>,
       <<105, 110, 116>>,
       <<102, 108, 111, 97, 116>> >>

is_keyword(token) ==
    \E i \in 1..Len(keywords) : strcmp(token, keywords[i]) = 0

is_valid_identifier_char(c) == isalnum(c) \/ c = 95

----------------------------------------------------------------------------
(* Lexer operations *)

\* init with its assert on lexer->input compiled out
assert_input_off(ok) == "live"

\* assert(lexer->input): the process goes on, or aborts, in a build with
\* assertions enabled
assert_input(ok) == IF ok THEN "live" ELSE "aborted"

\* The lexer when init has aborted: no stream, nothing read
NoLexer == [ input |-> NULL, fgetc_calls |-> 0, advances_at_end |-> 0 ]

\* init(filename), for a file that fopen can open.  advances_at_end counts
\* the calls of advance made with end_of_file already set.
init ==
    [ input |-> fgetc_pos(0),
      current_line |-> 1,
      current_column |-> 0,
      end_of_file |-> FALSE,
      current_char |-> ToChar(fgetc(0)),
      fgetc_calls |-> 1,
      advances_at_end |-> 0 ]

\* advance(lexer): line 83 is an assignment, not a comparison: it stores
\* END in current_char and tests the stored value
advance(lx) ==
    LET moved == IF lx.current_char = 10
                 THEN [lx EXCEPT !.current_line = @ + 1, !.current_column = 0]
                 ELSE [lx EXCEPT !.current_column = @ + 1]
        read == [moved EXCEPT !.current_char = ToChar(fgetc(lx.input)),
                              !.input = fgetc_pos(lx.input),
                              !.fgetc_calls = @ + 1,
                              !.advances_at_end =
                                  IF lx.end_of_file THEN @ + 1 ELSE @]
        assigned == ToChar(END)
    IN  [read EXCEPT !.current_char = assigned,
                     !.end_of_file = IF assigned # 0 THEN TRUE ELSE @]

\* skip written as a do-while loop: advances before it tests
RECURSIVE skip_dowhile(_)
skip_dowhile(lx) ==
    LET after == advance(lx)
    IN  IF isspace(after.current_char) /\ ~after.end_of_file
        THEN skip_dowhile(after)
        ELSE after

RECURSIVE skip(_)
skip(lx) ==
    IF isspace(lx.current_char) /\ ~lx.end_of_file
    THEN skip(advance(lx))
    ELSE lx

\* The while loop of the identifier branch: the lexer and buf after it
RECURSIVE identifier_loop(_, _)
identifier_loop(lx, buf) ==
    IF is_valid_identifier_char(lx.current_char)
    THEN identifier_loop(advance(lx),
                         IF Len(buf) < BUFFER - 1
                         THEN Append(buf, lx.current_char) ELSE buf)
    ELSE [lexer |-> lx, buf |-> buf]

\* The while loop of the digit branch
RECURSIVE digit_loop(_, _)
digit_loop(lx, buf) ==
    IF isdigit(lx.current_char)
    THEN digit_loop(advance(lx),
                    IF Len(buf) < BUFFER - 1
                    THEN Append(buf, lx.current_char) ELSE buf)
    ELSE [lexer |-> lx, buf |-> buf]

Token(type, token, line, column) ==
    [type |-> type, token |-> token, line |-> line, column |-> column]

\* The type the identifier branch gives its captured buf
identifier_type(buf) == IF is_keyword(buf) THEN KEYWORD ELSE IDENTIFIER

\* The digit branch giving its capture the NUMBER type
digit_type_number(buf) == IF is_keyword(buf) THEN KEYWORD ELSE NUMBER

\* The type the digit branch gives its captured buf
digit_type(buf) == IF is_keyword(buf) THEN KEYWORD ELSE IDENTIFIER

\* get_next(lexer): the lexer afterwards and the Token returned
get_next(lx0) ==
    LET lx == skip(lx0)
    IN  IF lx.end_of_file
        THEN [lexer |-> lx,
              token |-> Token(END, <<69, 79, 70>>,
                              lx.current_line, lx.current_column)]
        ELSE IF isalpha(lx.current_char) \/ lx.current_char = 95
        THEN LET r == identifier_loop(lx, <<>>)
             IN  [lexer |-> r.lexer,
                  token |-> Token(identifier_type(CString(r.buf)),
                                  CString(r.buf),
                                  r.lexer.current_line, lx.current_column)]
        ELSE IF isdigit(lx.current_char)
        THEN LET r == digit_loop(lx, <<>>)
             IN  [lexer |-> r.lexer,
                  token |-> Token(digit_type(CString(r.buf)), CString(r.buf),
                                  r.lexer.current_line, lx.current_column)]
        ELSE IF is_operator(lx.current_char)
        THEN LET after == advance(lx)
             IN  [lexer |-> after,
                  token |-> Token(OPERATOR, CString(<<lx.current_char, 0>>),
                                  after.current_line, lx.current_column)]
        ELSE [lexer |-> advance(lx),
              token |-> Token(INVALID, CString(<<lx.current_char, 0>>),
                              lx.current_line, lx.current_column)]

----------------------------------------------------------------------------
(* The driver: init, then get_next calls, then destroy_lexer *)

Init ==
    /\ source \in Sources
    /\ opened \in BOOLEAN
    /\ char_signed \in BOOLEAN
    /\ state = assert_input(opened)
    /\ lexer = IF state = "live" THEN init ELSE NoLexer
    /\ returned = <<>>
    /\ fclose_calls = 0
    /\ call = "none"
    /\ result = "none"

GetNext ==
    /\ state = "live"
    /\ Len(returned) < MaxCalls
    /\ LET r == get_next(lexer)
       IN  /\ lexer' = r.lexer
           /\ returned' = Append(returned, r.token)
    /\ UNCHANGED <<source, opened, char_signed, state, fclose_calls,
                   call, result>>

\* destroy_lexer without its fclose
destroy_lexer_leak(closes) == closes

\* destroy_lexer(lexer): the number of fclose calls after it; lexer->input
\* is not NULL in a lexer that init returned
destroy_lexer(closes) == closes + 1

DestroyLexer ==
    /\ state = "live"
    /\ state' = "destroyed"
    /\ fclose_calls' = destroy_lexer(fclose_calls)
    /\ UNCHANGED <<source, opened, char_signed, lexer, returned, call, result>>

Next == GetNext \/ DestroyLexer

Spec == Init /\ [][Next]_vars

----------------------------------------------------------------------------
(* Direct calls of is_keyword, the way a unit test makes them *)

\* i f I n t e: enough to spell "if" and "int", their prefixes, extensions
\* and other-case variants
KeywordLetters == {105, 102, 73, 110, 116, 101}

\* The arguments tried: the null pointer, every string of at most MaxLen of
\* those letters (the empty string included), and the six keywords
KeywordArgs ==
    { [null |-> TRUE, str |-> <<>>] }
    \cup { [null |-> FALSE, str |-> w] :
             w \in SeqsUpTo(KeywordLetters, MaxLen)
                   \cup { keywords[i] : i \in 1..Len(keywords) } }

\* What a call is_keyword(arg) can do.  With a null pointer the first
\* strcmp dereferences it, which is undefined: the call may return either
\* value or crash the process.
is_keyword_call(arg) ==
    IF arg.null THEN {"true", "false", "crash"}
    ELSE { IF is_keyword(arg.str) THEN "true" ELSE "false" }

PredInit ==
    /\ source = <<>>
    /\ opened = FALSE
    /\ char_signed \in BOOLEAN
    /\ state = "predicates"
    /\ lexer = NoLexer
    /\ returned = <<>>
    /\ fclose_calls = 0
    /\ call \in { [fn |-> "is_keyword", arg |-> a] : a \in KeywordArgs }
    /\ result = "pending"

CallIsKeyword ==
    /\ state = "predicates"
    /\ result = "pending"
    /\ result' \in is_keyword_call(call.arg)
    /\ UNCHANGED <<source, opened, char_signed, lexer, returned, state,
                   fclose_calls, call>>

PredNext == CallIsKeyword

PredSpec == PredInit /\ [][PredNext]_vars

----------------------------------------------------------------------------
(* The lexemes of a source file, as the specification defines them:        *)
(* whitespace separates; a letter or underscore starts a maximal run of    *)
(* letters, digits and underscores; a digit starts a maximal run of        *)
(* digits; every other character is a lexeme of its own.                   *)

SpecWhitespace == {32, 9, 13, 10}
SpecLetters == (65..90) \cup (97..122)
SpecDigits == 48..57
SpecWordChars == SpecLetters \cup SpecDigits \cup {95}
SpecOperators == {43, 45, 42, 47, 61, 60, 62, 33, 38, 124}
SpecKeywords ==
    { <<105, 102>>, <<101, 108, 115, 101>>, <<119, 104, 105, 108, 101>>,
      <<114, 101, 116, 117, 114, 110>>, <<105, 110, 116>>,
      <<102, 108, 111, 97, 116>> }

\* Last index of the maximal run of characters of S that starts at i
RunEnd(inp, i, S) ==
    CHOOSE j \in i..Len(inp) :
        /\ \A k \in i..j : inp[k] \in S
        /\ j = Len(inp) \/ inp[j + 1] \notin S

RECURSIVE LexemesFrom(_, _, _, _)
LexemesFrom(inp, i, line, col) ==
    IF i > Len(inp) THEN <<>>
    ELSE IF inp[i] \in SpecWhitespace
    THEN LexemesFrom(inp, i + 1,
                     IF inp[i] = 10 THEN line + 1 ELSE line,
                     IF inp[i] = 10 THEN 0 ELSE col + 1)
    ELSE LET j == IF inp[i] \in SpecLetters \cup {95}
                  THEN RunEnd(inp, i, SpecWordChars)
                  ELSE IF inp[i] \in SpecDigits
                  THEN RunEnd(inp, i, SpecDigits)
                  ELSE i
             class == IF inp[i] \in SpecLetters \cup {95} THEN "word"
                      ELSE IF inp[i] \in SpecDigits THEN "digits"
                      ELSE IF inp[i] \in SpecOperators THEN "operator"
                      ELSE "other"
         IN  << [text |-> SubSeq(inp, i, j), class |-> class,
                 line |-> line, column |-> col] >>
             \o LexemesFrom(inp, j + 1, line, col + (j - i + 1))

Lexemes == LexemesFrom(source, 1, 1, 0)

\* A lexeme cut to the capacity of the lexeme buffer
Truncated(text) ==
    IF Len(text) <= BUFFER - 1 THEN text ELSE SubSeq(text, 1, BUFFER - 1)

\* Letters, digits, underscores, operator characters and whitespace only
WellFormed ==
    \A i \in 1..Len(source) :
        source[i] \in SpecWordChars \cup SpecOperators \cup SpecWhitespace

EndReturned == \E k \in 1..Len(returned) : returned[k].type = END

FirstEnd ==
    CHOOSE k \in 1..Len(returned) :
        /\ returned[k].type = END
        /\ \A j \in 1..(k - 1) : returned[j].type # END

RECURSIVE Flatten(_)
Flatten(seqs) ==
    IF seqs = <<>> THEN <<>> ELSE Head(seqs) \o Flatten(Tail(seqs))

SelectNonWhitespace(inp) == SelectSeq(inp, LAMBDA c : c \notin SpecWhitespace)

----------------------------------------------------------------------------
(* Claims *)

\* C1: for a source of letters, digits, underscores, operator characters
\* and whitespace, the calls of get_next return one token per maximal
\* lexeme, in order and with the lexeme as text, and then End; for a+b they
\* return Identifier "a", Operator "+", Identifier "b", End.
C1_TokenPerLexeme ==
    (WellFormed /\ Len(source) > 0) =>
        /\ \A k \in 1..Len(returned) :
              IF k <= Len(Lexemes)
              THEN /\ returned[k].type # END
                   /\ returned[k].token = Truncated(Lexemes[k].text)
              ELSE returned[k].type = END
        /\ (source = <<97, 43, 98>> /\ Len(returned) = 4) =>
              /\ returned[1].type = IDENTIFIER /\ returned[1].token = <<97>>
              /\ returned[2].type = OPERATOR /\ returned[2].token = <<43>>
              /\ returned[3].type = IDENTIFIER /\ returned[3].token = <<98>>
              /\ returned[4].type = END

\* C2: when get_next first returns End, the texts of the tokens returned
\* before it, put end to end, are exactly the non-whitespace characters of
\* the source in order: no character is left unconsumed or skipped.
C2_EveryCharAccounted ==
    (WellFormed /\ EndReturned) =>
        Flatten([k \in 1..(FirstEnd - 1) |-> returned[k].token])
            = SelectNonWhitespace(source)

\* C3: when the source starts with an identifier that is not a keyword, the
\* first token is an Identifier whose text is the whole identifier (up to
\* the truncation bound).
C3_IdentifierFullLexeme ==
    ( /\ Len(source) > 0
      /\ source[1] \in SpecLetters \cup {95}
      /\ Lexemes[1].text \notin SpecKeywords
      /\ Len(returned) >= 1 ) =>
        /\ returned[1].type = IDENTIFIER
        /\ returned[1].token = Truncated(Lexemes[1].text)

\* C4: a keyword that is a complete lexeme of the source is returned as a
\* Keyword token with the keyword as text; while( gives Keyword "while" and
\* then Invalid "(".
C4_KeywordTokens ==
    /\ \A k \in 1..Len(returned) :
          (k <= Len(Lexemes) /\ Lexemes[k].text \in SpecKeywords) =>
              /\ returned[k].type = KEYWORD
              /\ returned[k].token = Lexemes[k].text
    /\ (source = <<119, 104, 105, 108, 101, 40>> /\ Len(returned) >= 2) =>
          /\ returned[2].type = INVALID
          /\ returned[2].token = <<40>>

\* C5: every token other than End carries the line (from 1) and column
\* (from 0) of the first character of its lexeme; for x, newline, y the
\* token for y is at line 2, column 0.
C5_TokenPositions ==
    /\ \A k \in 1..Len(returned) :
          (returned[k].type # END /\ Len(source) > 0) =>
              /\ k <= Len(Lexemes)
              /\ returned[k].line = Lexemes[k].line
              /\ returned[k].column = Lexemes[k].column
    /\ (WellFormed /\ Len(source) > 0 /\ EndReturned) =>
          FirstEnd = Len(Lexemes) + 1
    /\ (source = <<120, 10, 121>> /\ EndReturned) =>
          \E k \in 1..Len(returned) :
              /\ returned[k].token = <<121>>
              /\ returned[k].line = 2
              /\ returned[k].column = 0

\* C6: for a source made only of spaces, tabs, carriage returns and
\* newlines, every token get_next returns is End.
C6_WhitespaceOnlyEnd ==
    (\A i \in 1..Len(source) : source[i] \in SpecWhitespace) =>
        \A k \in 1..Len(returned) : returned[k].type = END

\* C7: after init on an empty source end_of_file is already set, and every
\* token get_next returns is End.
C7_EmptySourceAtEnd ==
    (opened /\ source = <<>>) =>
        /\ lexer.end_of_file
        /\ \A k \in 1..Len(returned) : returned[k].type = END

\* C8: once get_next has returned End, a further call returns End again
\* with the text "EOF" and the same line and column, and leaves the whole
\* lexer (line, column, current character, end_of_file, stream offset and
\* number of reads) as it was.
C8_EndIdempotent ==
    [][ (EndReturned /\ Len(returned') = Len(returned) + 1) =>
            /\ lexer' = lexer
            /\ returned'[Len(returned')] = returned[FirstEnd]
            /\ returned'[Len(returned')].type = END
            /\ returned'[Len(returned')].token = <<69, 79, 70>> ]_vars

\* A second End has been returned after a first
C8_Witness ==
    /\ Len(returned) >= 2
    /\ returned[Len(returned) - 1].type = END
    /\ returned[Len(returned)].type = END

\* C9: for a source that is a run of digits, the first token is an
\* Identifier whose text is the whole run (up to the truncation bound).
C9_DigitRunIdentifier ==
    ( /\ Len(source) > 0
      /\ \A i \in 1..Len(source) : source[i] \in SpecDigits
      /\ Len(returned) >= 1 ) =>
        /\ returned[1].type = IDENTIFIER
        /\ returned[1].token = Truncated(source)

C11_EndWithinLengthPlusOne ==
    (opened /\ Len(returned) >= Len(source) + 1) => EndReturned

C13_LookaheadTracksInput ==
    (opened /\ Len(source) > 0) =>
        LET k == lexer.fgetc_calls - 1
        IN  IF k < Len(source)
            THEN /\ ~lexer.end_of_file
                 /\ lexer.current_char = source[k + 1]
            ELSE lexer.end_of_file

\* C14: an identifier or digit run longer than the lexeme bound (BUFFER - 1
\* characters) is returned with exactly its first BUFFER - 1 characters as
\* text, the whole run is consumed, the next token is the lexeme after the
\* run at its own column, and no token text is longer than the bound.
C14_TruncationPolicy ==
    /\ ( /\ opened
         /\ Len(source) > 0
         /\ source[1] \in SpecWordChars
         /\ Len(Lexemes[1].text) > BUFFER - 1 ) =>
            /\ Len(returned) >= 1 =>
                  returned[1].token = SubSeq(Lexemes[1].text, 1, BUFFER - 1)
            /\ (Len(returned) >= 2 /\ Len(Lexemes) >= 2) =>
                  /\ returned[2].token = Lexemes[2].text
                  /\ returned[2].line = Lexemes[2].line
                  /\ returned[2].column = Lexemes[2].column
    /\ \A k \in 1..Len(returned) : Len(returned[k].token) <= BUFFER - 1

\* C15: when get_next is called with end_of_file false and the current
\* character c is a character of the source that is neither whitespace
\* (space, tab, carriage return, newline), nor a letter, digit or
\* underscore, nor one of the ten operator characters, it returns an Invalid
\* token with text c at c's line and column and reads exactly one more
\* character: c is neither skipped nor given another kind.
C15_InvalidForOtherChars ==
    [][ ( /\ state = "live"
          /\ Len(returned') = Len(returned) + 1
          /\ ~lexer.end_of_file
          /\ lexer.fgetc_calls <= Len(source)
          /\ lexer.current_char \notin
                 SpecWhitespace \cup SpecWordChars \cup SpecOperators ) =>
            /\ returned'[Len(returned')] =
                   Token(INVALID, <<lexer.current_char>>,
                         lexer.current_line, lexer.current_column)
            /\ lexer'.fgetc_calls = lexer.fgetc_calls + 1 ]_vars

\* C16: is_operator is true for exactly the ten characters + - * / = < > !
\* & | and false for every other character, NUL included (checked on the
\* character get_next starts from); and every Operator token get_next
\* returns has one of those ten characters as its one-character text.
C16_OperatorSet ==
    /\ (opened /\ Len(source) >= 1 /\ Len(returned) >= 1) =>
          (is_operator(source[1]) <=> source[1] \in SpecOperators)
    /\ \A k \in 1..Len(returned) :
          returned[k].type = OPERATOR =>
              /\ Len(returned[k].token) = 1
              /\ returned[k].token[1] \in SpecOperators

\* C17: is_keyword returns true for exactly the six strings if, else,
\* while, return, int, float, and false for every other argument, the empty
\* string and the null pointer included; it always returns.
C17_KeywordTotal ==
    (state = "predicates" /\ result # "pending") =>
        result = IF ~call.arg.null /\ call.arg.str \in SpecKeywords
                 THEN "true" ELSE "false"

\* C18: from init until destroy_lexer the source handle is open, whatever
\* number of get_next calls are made (none included): nothing has closed
\* it; destroy_lexer closes it exactly once.
C18_HandleReleasedOnce ==
    opened =>
        /\ state = "live" => fclose_calls = 0
        /\ state = "destroyed" => fclose_calls = 1

\* destroy_lexer has run after at least one get_next call
C18_Witness ==
    /\ state = "destroyed"
    /\ fclose_calls = 1
    /\ Len(returned) >= 1

\* C19: end_of_file is false right after init; once true it stays true; and
\* advance is never called with end_of_file already true, so that from then
\* on nothing is read and line and column do not change.
C19_AtEndMonotone ==
    /\ []( (opened /\ state = "live" /\ returned = <<>>) =>
               ~lexer.end_of_file )
    /\ []( opened => lexer.advances_at_end = 0 )
    /\ [][ (opened /\ lexer.end_of_file) =>
               /\ lexer'.end_of_file
               /\ lexer' = lexer ]_vars

\* Calls of get_next have been made with end_of_file already true
C19_Witness ==
    /\ opened
    /\ lexer.end_of_file
    /\ Len(returned) >= 3
    /\ returned[2].type = END

====
